---- MODULE Spec2Model ----
(***************************************************************************)
(* Model of the Gemini transport client (callGemini) and of its request   *)
(* handler (handleGeminiRequest).                                          *)
(*                                                                         *)
(* Strings are sequences of one-character strings, so that trimming,      *)
(* concatenation and substring search are computed and not assumed.       *)
(* JavaScript values of unknown type are records [t, s]: t is the result  *)
(* of typeof, s the characters of a string (empty for the other types).   *)
(***************************************************************************)
EXTENDS Integers, Sequences, FiniteSets, TLC

\* Longest prompt, in characters, that a request carries.
MaxPromptLen == 2

\* Longest list of grounding attributions that a response carries.
MaxSources == 2

\* One attempt more
maxAttemptsOneMore == 2 + 1

maxAttempts == 2
baseTimeoutMs == 8000
backoffStepMs == 200

----------------------------------------------------------------------------
\* JavaScript values

Str(s) == [t |-> "string", s |-> s]
Undef == [t |-> "undefined", s |-> <<>>]
Num == [t |-> "number", s |-> <<>>]

\* Truthiness of a value that is a string or undefined (!x is ~Truthy(x)).
Truthy(v) == v.t = "string" /\ Len(v.s) > 0

Chars == {" ", "a"}
IsWhitespace(c) == c = " "

RECURSIVE TrimStart(_)
TrimStart(s) ==
  IF s # <<>> /\ IsWhitespace(Head(s)) THEN TrimStart(Tail(s)) ELSE s

RECURSIVE TrimEnd(_)
TrimEnd(s) ==
  IF s # <<>> /\ IsWhitespace(s[Len(s)]) THEN TrimEnd(SubSeq(s, 1, Len(s) - 1)) ELSE s

\* String.prototype.trim
Trim(s) == TrimEnd(TrimStart(s))

\* String.prototype.includes, on sequences
Includes(s, sub) ==
  \E i \in 1..(Len(s) - Len(sub) + 1) : SubSeq(s, i, i + Len(sub) - 1) = sub

Strings(n) == UNION {[1..k -> Chars] : k \in 0..n}

----------------------------------------------------------------------------
\* Responses of the provider

\* A response body as the provider sent it: json says whether the text parses
\* as JSON, text is candidates[0].content.parts[0].text of the parsed value
\* (Undef when any link of that chain is missing), error says whether the
\* parsed value has a truthy "error" member, grounding is
\* candidates[0].groundingMetadata: "absent" when there is no such object,
\* "noattr" when it has no groundingAttributions, "notarray" when that member
\* is truthy and not an array, "list" when it is the array in list.

\* One grounding attribution: web says whether it has a web member
Attributions ==
  {[web |-> TRUE, uri |-> Str(<<"u">>), title |-> Str(<<"t">>)],
   [web |-> TRUE, uri |-> Undef, title |-> Undef],
   [web |-> FALSE, uri |-> Undef, title |-> Undef]}

NoGrounding == [kind |-> "absent", list |-> <<>>]
Groundings ==
  {NoGrounding, [kind |-> "noattr", list |-> <<>>], [kind |-> "notarray", list |-> <<>>]}
    \cup {[kind |-> "list", list |-> l] : l \in UNION {[1..k -> Attributions] : k \in 0..MaxSources}}

MalformedBody == [json |-> FALSE, text |-> Undef, error |-> FALSE, grounding |-> NoGrounding]
Bodies ==
  {MalformedBody} \cup
  [json : {TRUE}, text : {Undef, Str(<<>>), Str(<<"a">>)}, error : BOOLEAN,
   grounding : {NoGrounding}] \cup
  [json : {TRUE}, text : {Str(<<"a">>)}, error : {FALSE}, grounding : Groundings]

Statuses == {200, 429, 503}

\* Grounding metadata comes with the answers only
Responses ==
  {r \in [status : Statuses, body : Bodies] :
     r.body.grounding # NoGrounding => r.status = 200}

\* Response.ok
Ok(r) == r.status >= 200 /\ r.status <= 299

\* The details member of an error: undefined, the parsed body ("json"), the
\* error member of the parsed body ("errobj") or the raw text ("text").
MkDetails(t, b) ==
  [t |-> t, json |-> b.json, text |-> b.text, error |-> b.error, grounding |-> b.grounding]
NoDetails == MkDetails("undefined", MalformedBody)

----------------------------------------------------------------------------
\* Error values.  status is {} when the field is undefined, else {code}.

MsgNoKey == <<"Server-side Gemini API key not configured.">>
MsgPromptRequired == <<"promptText is required">>
MsgApiError(status) == <<"Gemini API Error", ": ", ToString(status)>>
MsgCouldNotParse == <<"Could not parse response from Gemini API.">>
MsgTimedOut == <<"Request to Gemini timed out">>
MsgUnknown == <<"Unknown error calling Gemini">>
MsgUnexpected == <<"Unexpected error in callGemini">>

\* new GeminiAPIError(message, status, details)
GeminiAPIError(message, status, details) ==
  [cls |-> "GeminiAPIError", name |-> "GeminiAPIError", message |-> message,
   status |-> status, details |-> details]

\* An exception that is not a GeminiAPIError (TypeError, SyntaxError, DOMException)
RawError(name, message) ==
  [cls |-> "Error", name |-> name, message |-> message, status |-> {}, details |-> NoDetails]

NoError == [cls |-> "none", name |-> "", message |-> <<>>, status |-> {}, details |-> NoDetails]

AbortError == RawError("AbortError", <<"This operation was aborted">>)
SyntaxError == RawError("SyntaxError", <<"Unexpected token">>)
MapTypeError == RawError("TypeError", <<"arr.map is not a function">>)

\* What fetch and the body readers reject with when the network fails
NetworkErrors == {RawError("TypeError", <<"fetch failed">>), RawError("Error", <<>>)}

----------------------------------------------------------------------------
\* Inbound bodies of the request handler

FieldValues(strs) == {Undef, Num} \cup {Str(s) : s \in strs}
Languages == {<<"ja-JP">>, <<"en-US">>, <<"fr-FR">>}
Instructions == {<<>>, <<"s">>}

NoBody == [isObject |-> FALSE, promptText |-> Undef, systemInstruction |-> Undef, language |-> Undef]
\* Every promptText with the other members absent, and every pair of the
\* other members with the promptText 'a'
RequestBodies ==
  {NoBody} \cup
  {b \in [isObject : {TRUE}, promptText : FieldValues(Strings(MaxPromptLen)),
          systemInstruction : FieldValues(Instructions), language : FieldValues(Languages)] :
     \/ b.promptText = Str(<<"a">>)
     \/ b.systemInstruction = Undef /\ b.language = Undef}

\* The arguments of the calls of callGemini made by other code, chosen alike
DirectArgs ==
  {a \in [promptText : Strings(MaxPromptLen), systemInstruction : Instructions,
          language : {Undef} \cup {Str(x) : x \in Languages}] :
     \/ a.promptText = <<"a">>
     \/ a.systemInstruction = <<>> /\ a.language = Undef}

DirectiveJa == <<"\n\n", "Always answer ONLY in Japanese">>
DirectiveEn == <<"\n\n", "Always answer ONLY in English">>

\* The two directives exchanged
buildFinalSystemInstructionSwapped(systemInstruction, language) ==
  LET final == IF Truthy(systemInstruction) THEN systemInstruction.s ELSE <<>>
  IN  IF language = Str(<<"ja-JP">>) THEN final \o DirectiveEn
      ELSE IF language = Str(<<"en-US">>) THEN final \o DirectiveJa
      ELSE final

\* buildFinalSystemInstruction(systemInstruction, language); both are JS values
buildFinalSystemInstruction(systemInstruction, language) ==
  LET final == IF Truthy(systemInstruction) THEN systemInstruction.s ELSE <<>>
  IN  IF language = Str(<<"ja-JP">>) THEN final \o DirectiveJa
      ELSE IF language = Str(<<"en-US">>) THEN final \o DirectiveEn
      ELSE final

NoPayload == [contents |-> <<>>, systemInstruction |-> <<>>, googleSearch |-> FALSE]

NoResponse == [status |-> 0, body |-> MalformedBody]
NoResult == [text |-> Undef, sources |-> <<>>]
NoReply == [status |-> 0, error |-> <<>>, details |-> NoDetails, result |-> NoResult]

----------------------------------------------------------------------------
VARIABLES
  apiKey,        \* process.env.GEMINI_API_KEY is set (truthy)
  hasAbort,      \* typeof AbortController !== 'undefined'
  body,          \* the inbound body given to handleGeminiRequest
  hpc,           \* position of handleGeminiRequest
  reply,         \* the NextResponse it produced
  args,          \* the arguments of callGemini
  payload,       \* the payload callGemini built
  pc,            \* position of callGemini
  attempt,       \* the loop variable
  controllers,   \* per attempt, its AbortController: "unborn", "null", "live", "aborted"
  timers,        \* the armed timers (setTimeout not yet fired nor cleared)
  inflight,      \* attempts whose outbound call has not settled
  calls,         \* number of fetch calls made
  resp,          \* what fetch resolved with in the current attempt, if it did
  trace,         \* history: calls started, what each attempt met, delays entered
  caught,        \* err of the catch block of the current attempt, if entered
  result,        \* what callGemini returned
  error          \* what callGemini threw

callVars == <<args, payload, pc, attempt, controllers, timers, inflight, calls, resp, trace,
              caught, result, error>>
vars == <<apiKey, hasAbort, body, hpc, reply, args, payload, pc, attempt, controllers,
          timers, inflight, calls, resp, trace, caught, result, error>>

NoArgs == [promptText |-> <<>>, systemInstruction |-> <<>>, language |-> Undef]

Init ==
  /\ apiKey \in BOOLEAN
  /\ hasAbort \in BOOLEAN
  /\ body = NoBody
  /\ hpc = "idle"
  /\ reply = NoReply
  /\ args = NoArgs
  /\ payload = NoPayload
  /\ pc = "idle"
  /\ attempt = 0
  /\ controllers = [n \in 1..maxAttempts |-> "unborn"]
  /\ timers = {}
  /\ inflight = {}
  /\ calls = 0
  /\ resp = NoResponse
  /\ trace = <<>>
  /\ caught = NoError
  /\ result = NoResult
  /\ error = NoError

----------------------------------------------------------------------------
\* callGemini

\* The same timeout at every attempt
AttemptTimeoutMsFlat(n) == baseTimeoutMs

\* baseTimeoutMs * attempt
AttemptTimeoutMs(n) == baseTimeoutMs * n

\* The delay doubled at each attempt
BackoffDelayMsDoubling(n) == backoffStepMs * (2 * n)

\* const delayMs = 200 * attempt
BackoffDelayMs(n) == backoffStepMs * n

\* No attempt taken as the last
IsLastNever(n) == n = maxAttempts + 1

\* const isLast = attempt === maxAttempts
IsLast(n) == n = maxAttempts

AttemptTimer(n) == [kind |-> "attempt", attempt |-> n, ms |-> AttemptTimeoutMs(n)]
BackoffTimer(n) == [kind |-> "backoff", attempt |-> n, ms |-> BackoffDelayMs(n)]

\* The timer left armed
ClearTimeoutNoop(ts, n) == ts

\* clearTimeout(timeout), timeout being the timer of attempt n
ClearTimeout(ts, n) == {t \in ts : ~(t.kind = "attempt" /\ t.attempt = n)}

\* The two checks in the other order
PreconditionErrorPromptFirst(key, promptText) ==
  IF promptText = <<>> \/ Trim(promptText) = <<>>
  THEN GeminiAPIError(MsgPromptRequired, {}, NoDetails)
  ELSE IF ~key THEN GeminiAPIError(MsgNoKey, {}, NoDetails)
       ELSE NoError

\* The two checks that open callGemini: the error thrown, or NoError
PreconditionError(key, promptText) ==
  IF ~key THEN GeminiAPIError(MsgNoKey, {}, NoDetails)
  ELSE IF promptText = <<>> \/ Trim(promptText) = <<>>
       THEN GeminiAPIError(MsgPromptRequired, {}, NoDetails)
       ELSE NoError

\* The final failure rethrown as caught
NormalizeRethrow(e) == e

\* Every final failure wrapped anew, a GeminiAPIError included
NormalizeWrapAll(e) ==
  IF e.name = "AbortError" THEN GeminiAPIError(MsgTimedOut, {}, NoDetails)
  ELSE GeminiAPIError(IF e.message # <<>> THEN e.message ELSE MsgUnknown, {}, NoDetails)

\* The final failure, normalized
Normalize(e) ==
  IF e.cls = "GeminiAPIError" THEN e
  ELSE IF e.name = "AbortError" THEN GeminiAPIError(MsgTimedOut, {}, NoDetails)
  ELSE GeminiAPIError(IF e.message # <<>> THEN e.message ELSE MsgUnknown, {}, NoDetails)

\* if (text), the condition inverted
TextMissingInverted(text) == Truthy(text)

\* if (text === undefined)
TextMissingUndefinedOnly(text) == text = Undef

\* if (!text)
TextMissing(text) == ~Truthy(text)

TitlePlaceholder == <<"External Source">>

\* The title left empty when the attribution has none
SourceOfNoPlaceholder(a) ==
  [uri |-> IF a.web /\ Truthy(a.uri) THEN a.uri.s ELSE <<>>,
   title |-> IF a.web /\ Truthy(a.title) THEN a.title.s ELSE <<>>]

\* (a) => ({ uri: a?.web?.uri || '', title: a?.web?.title || 'External Source' })
SourceOf(a) ==
  [uri |-> IF a.web /\ Truthy(a.uri) THEN a.uri.s ELSE <<>>,
   title |-> IF a.web /\ Truthy(a.title) THEN a.title.s ELSE TitlePlaceholder]

\* parseCandidateSources(candidate), g being candidate.groundingMetadata:
\* the sources, or thrown when arr.map is not a function
parseCandidateSources(g) ==
  IF g.kind \in {"absent", "noattr"} THEN [thrown |-> FALSE, sources |-> <<>>]
  ELSE IF g.kind = "notarray" THEN [thrown |-> TRUE, sources |-> <<>>]
  ELSE [thrown |-> FALSE, sources |-> [i \in 1..Len(g.list) |-> SourceOf(g.list[i])]]

\* let details = txt, the parsed error never taken
ErrorDetailsRawOnly(b) == MkDetails("text", b)

\* details of the error of a non-success response: JSON.parse(txt).error || txt
ErrorDetails(b) == IF b.json /\ b.error THEN MkDetails("errobj", b) ELSE MkDetails("text", b)

\* One loop iteration up to its await: a controller, a timer, the fetch
StartAttempt(n) ==
  /\ attempt' = n
  /\ controllers' = [controllers EXCEPT ![n] = IF hasAbort THEN "live" ELSE "null"]
  /\ timers' = {t \in timers : t.kind # "backoff"} \cup {AttemptTimer(n)}
  /\ inflight' = inflight \cup {n}
  /\ calls' = calls + 1
  /\ trace' = Append(trace, [ev |-> "call", n |-> n, kind |-> ""])
  /\ caught' = NoError
  /\ resp' = NoResponse
  /\ pc' = "fetching"

\* The body of callGemini up to its first await
Enter(promptText, systemInstruction, language) ==
  LET e == PreconditionError(apiKey, promptText) IN
  /\ args' = [promptText |-> promptText, systemInstruction |-> systemInstruction,
              language |-> language]
  /\ IF e # NoError
     THEN /\ pc' = "threw"
          /\ error' = e
          /\ UNCHANGED <<payload, attempt, controllers, timers, inflight, calls, trace,
                         caught, resp>>
     ELSE /\ payload' = [contents |-> promptText,
                         systemInstruction |->
                           buildFinalSystemInstruction(Str(systemInstruction), language),
                         googleSearch |-> TRUE]
          /\ StartAttempt(1)
          /\ UNCHANGED error
  /\ UNCHANGED result

\* The catch block with the backoff promise not awaited: the next attempt
\* starts while the backoff timer is armed
CatchNoAwait(err, kind) ==
  /\ caught' = err
  /\ IF ~IsLast(attempt)
     THEN /\ inflight' = (inflight \ {attempt}) \cup {attempt + 1}
          /\ timers' = ClearTimeout(timers, attempt)
                          \cup {BackoffTimer(attempt), AttemptTimer(attempt + 1)}
          /\ trace' = trace \o <<[ev |-> "outcome", n |-> attempt, kind |-> kind],
                                  [ev |-> "delay", n |-> BackoffDelayMs(attempt), kind |-> ""],
                                  [ev |-> "call", n |-> attempt + 1, kind |-> ""]>>
          /\ pc' = "fetching"
          /\ attempt' = attempt + 1
          /\ calls' = calls + 1
          /\ controllers' = [controllers EXCEPT
                               ![attempt + 1] = IF hasAbort THEN "live" ELSE "null"]
          /\ UNCHANGED error
     ELSE /\ inflight' = inflight \ {attempt}
          /\ timers' = ClearTimeout(timers, attempt)
          /\ trace' = Append(trace, [ev |-> "outcome", n |-> attempt, kind |-> kind])
          /\ pc' = "threw"
          /\ error' = Normalize(err)
          /\ UNCHANGED <<attempt, calls, controllers>>
  /\ UNCHANGED <<args, payload, result>>

\* The catch block, entered with err after the attempt met `kind`
Catch(err, kind) ==
  /\ caught' = err
  /\ inflight' = inflight \ {attempt}
  /\ IF ~IsLast(attempt)
     THEN /\ timers' = ClearTimeout(timers, attempt) \cup {BackoffTimer(attempt)}
          /\ trace' = trace \o <<[ev |-> "outcome", n |-> attempt, kind |-> kind],
                                  [ev |-> "delay", n |-> BackoffDelayMs(attempt), kind |-> ""]>>
          /\ pc' = "backoff"
          /\ UNCHANGED error
     ELSE /\ timers' = ClearTimeout(timers, attempt)
          /\ trace' = Append(trace, [ev |-> "outcome", n |-> attempt, kind |-> kind])
          /\ pc' = "threw"
          /\ error' = Normalize(err)
  /\ UNCHANGED <<args, payload, attempt, controllers, calls, result>>

\* What the response of an attempt is, read off the response alone
OutcomeKind(r) ==
  IF ~Ok(r) THEN "http"
  ELSE IF ~r.body.json THEN "malformed"
  ELSE IF ~Truthy(r.body.text) THEN "notext"
  ELSE IF r.body.grounding.kind = "notarray" THEN "badsources"
  ELSE "success"

\* callGemini(promptText, systemInstruction, language) called by other code
\* than the handler
DirectCall(promptText, systemInstruction, language) ==
  /\ hpc = "idle" /\ pc = "idle"
  /\ hpc' = "none"
  /\ Enter(promptText, systemInstruction, language)
  /\ UNCHANGED <<apiKey, hasAbort, body, reply>>

\* fetch resolves with a response: clearTimeout, then the body is read
FetchResolve(r) ==
  /\ pc = "fetching"
  /\ controllers[attempt] # "aborted"
  /\ resp' = r
  /\ timers' = ClearTimeout(timers, attempt)
  /\ pc' = "reading"
  /\ UNCHANGED <<apiKey, hasAbort, body, hpc, reply, args, payload, attempt, controllers,
                 inflight, calls, trace, caught, result, error>>

\* fetch rejects with a network error
FetchReject(e) ==
  /\ pc = "fetching"
  /\ controllers[attempt] # "aborted"
  /\ Catch(e, "network")
  /\ UNCHANGED <<apiKey, hasAbort, body, hpc, reply, resp>>

\* The timer of an attempt expires: () => controller?.abort()
TimerFire ==
  \E t \in timers :
    /\ t.kind = "attempt"
    /\ timers' = timers \ {t}
    /\ controllers' = [controllers EXCEPT
                         ![t.attempt] = IF @ = "live" THEN "aborted" ELSE @]
    /\ UNCHANGED <<apiKey, hasAbort, body, hpc, reply, args, payload, pc, attempt,
                   inflight, calls, resp, trace, caught, result, error>>

\* The aborted fetch rejects with an AbortError
AbortReject ==
  /\ pc = "fetching"
  /\ controllers[attempt] = "aborted"
  /\ Catch(AbortError, "abort")
  /\ UNCHANGED <<apiKey, hasAbort, body, hpc, reply, resp>>

\* resp.text() or resp.json() rejects: the connection broke while the body
\* was read
ReadBodyFail(e) ==
  /\ pc = "reading"
  /\ Catch(e, "readfail")
  /\ UNCHANGED <<apiKey, hasAbort, body, hpc, reply, resp>>

\* The body arrives whole: lines 68 to 81
ReadBody ==
  /\ pc = "reading"
  /\ IF ~Ok(resp)
     THEN Catch(GeminiAPIError(MsgApiError(resp.status), {resp.status},
                               ErrorDetails(resp.body)), OutcomeKind(resp))
     ELSE IF ~resp.body.json
     THEN Catch(SyntaxError, OutcomeKind(resp))
     ELSE IF TextMissing(resp.body.text)
     THEN Catch(GeminiAPIError(MsgCouldNotParse, {500}, MkDetails("json", resp.body)),
                OutcomeKind(resp))
     ELSE IF parseCandidateSources(resp.body.grounding).thrown
     THEN Catch(MapTypeError, OutcomeKind(resp))
     ELSE /\ result' = [text |-> resp.body.text,
                        sources |-> parseCandidateSources(resp.body.grounding).sources]
          /\ pc' = "returned"
          /\ inflight' = inflight \ {attempt}
          /\ trace' = Append(trace, [ev |-> "outcome", n |-> attempt, kind |-> OutcomeKind(resp)])
          /\ UNCHANGED <<args, payload, attempt, controllers, timers, calls, caught, error>>
  /\ UNCHANGED <<apiKey, hasAbort, body, hpc, reply, resp>>

\* The backoff timer fires: continue, attempt++, the loop condition
BackoffElapse ==
  /\ pc = "backoff"
  /\ BackoffTimer(attempt) \in timers
  /\ IF attempt + 1 <= maxAttempts
     THEN /\ StartAttempt(attempt + 1)
          /\ UNCHANGED error
     ELSE /\ pc' = "threw"
          /\ error' = GeminiAPIError(MsgUnexpected, {}, NoDetails)
          /\ timers' = timers \ {BackoffTimer(attempt)}
          /\ UNCHANGED <<attempt, controllers, inflight, calls, trace, caught, resp>>
  /\ UNCHANGED <<apiKey, hasAbort, body, hpc, reply, args, payload, result>>

----------------------------------------------------------------------------
\* handleGeminiRequest

MsgMissingPrompt == <<"Missing promptText">>
MsgServiceError == <<"Gemini service error">>

\* The status decided by the presence of a status member
ErrorStatusFromField(e) == IF e.status # {} THEN 502 ELSE 500

\* const status = err?.message && err.message.includes('Gemini API Error') ? 502 : 500
ErrorStatus(e) ==
  IF e.message # <<>> /\ Includes(e.message, <<"Gemini API Error">>) THEN 502 ELSE 500

MsgInternal == <<"Internal server error">>
MsgInvalidRequest == <<"Invalid request">>

\* {}
EmptyObject == [isObject |-> TRUE, promptText |-> Undef, systemInstruction |-> Undef,
                language |-> Undef]

\* The body taken as the payload whatever it is
PayloadUnchecked(b) == b

\* const payload = (body && typeof body === 'object') ? body : {}
PayloadOf(b) == IF b.isObject THEN b ELSE EmptyObject

\* typeof payload[field] === 'string' ? payload[field] : dflt
StringField(b, v, dflt) == IF b.isObject /\ v.t = "string" THEN v ELSE dflt

\* handleGeminiRequest(body), up to the await of callGemini
HandleRequest(b) ==
  LET p == PayloadOf(b)
      promptText == StringField(p, p.promptText, Str(<<>>))
      systemInstruction == StringField(p, p.systemInstruction, Str(<<>>))
      language == StringField(p, p.language, Undef)
  IN
  /\ hpc = "idle" /\ pc = "idle"
  /\ body' = b
  /\ IF ~p.isObject
     THEN \* reading a member of null throws: the outer catch, lines 22 to 25
          /\ hpc' = "responded"
          /\ reply' = [status |-> 500, error |-> MsgInternal, details |-> NoDetails,
                       result |-> NoResult]
          /\ UNCHANGED callVars
     ELSE IF ~Truthy(promptText)
     THEN /\ hpc' = "responded"
          /\ reply' = [status |-> 400, error |-> MsgMissingPrompt, details |-> NoDetails,
                       result |-> NoResult]
          /\ UNCHANGED callVars
     ELSE /\ hpc' = "awaiting"
          /\ Enter(promptText.s, systemInstruction.s, language)
          /\ UNCHANGED reply
  /\ UNCHANGED <<apiKey, hasAbort>>

\* callGemini settled: lines 15 to 21
HandlerRespond ==
  /\ hpc = "awaiting"
  /\ pc \in {"returned", "threw"}
  /\ hpc' = "responded"
  /\ reply' = IF pc = "returned"
              THEN [status |-> 200, error |-> <<>>, details |-> NoDetails, result |-> result]
              ELSE [status |-> ErrorStatus(error),
                    error |-> IF error.message # <<>> THEN error.message ELSE MsgServiceError,
                    details |-> error.details, result |-> NoResult]
  /\ UNCHANGED <<apiKey, hasAbort, body>>
  /\ UNCHANGED callVars

\* POST(req) with a request whose body is not JSON: req.json() rejects and
\* the route answers without calling the handler
PostInvalidJson ==
  /\ hpc = "idle" /\ pc = "idle"
  /\ hpc' = "rejected"
  /\ reply' = [status |-> 400, error |-> MsgInvalidRequest, details |-> NoDetails,
               result |-> NoResult]
  /\ UNCHANGED <<apiKey, hasAbort, body>>
  /\ UNCHANGED callVars

----------------------------------------------------------------------------
Next ==
  \/ \E b \in RequestBodies : HandleRequest(b)
  \/ PostInvalidJson
  \/ \E a \in DirectArgs : DirectCall(a.promptText, a.systemInstruction, a.language)
  \/ \E r \in Responses : FetchResolve(r)
  \/ \E e \in NetworkErrors : FetchReject(e)
  \/ TimerFire
  \/ AbortReject
  \/ \E e \in NetworkErrors : ReadBodyFail(e)
  \/ ReadBody
  \/ BackoffElapse
  \/ HandlerRespond

Spec == Init /\ [][Next]_vars

\* The fetch of an attempt settles: it resolves, rejects, or rejects aborted
FetchSettles ==
  \/ \E r \in Responses : FetchResolve(r)
  \/ \E e \in NetworkErrors : FetchReject(e)
  \/ AbortReject

\* The body of a response arrives or its reading fails
BodySettles ==
  \/ ReadBody
  \/ \E e \in NetworkErrors : ReadBodyFail(e)

\* Every outbound call settles, every backoff timer fires, and the handler
\* resumes when callGemini has settled
FairSpec ==
  /\ Spec
  /\ WF_vars(FetchSettles)
  /\ WF_vars(BodySettles)
  /\ WF_vars(BackoffElapse)
  /\ WF_vars(HandlerRespond)

----------------------------------------------------------------------------
\* Properties

\* What attempt n met, "none" while it has not settled
Outcome(n) ==
  IF \E i \in 1..Len(trace) : trace[i].ev = "outcome" /\ trace[i].n = n
  THEN trace[CHOOSE i \in 1..Len(trace) : trace[i].ev = "outcome" /\ trace[i].n = n].kind
  ELSE "none"

IsCall(e) == e.ev = "call"
CallEvents == SelectSeq(trace, IsCall)

CallEvent(n) == [ev |-> "call", n |-> n, kind |-> ""]
OutcomeEvent(n, kind) == [ev |-> "outcome", n |-> n, kind |-> kind]
DelayEvent(ms) == [ev |-> "delay", n |-> ms, kind |-> ""]

\* The inbound body carries a promptText that is a string and is empty or
\* whitespace-only
BlankPromptBody == body.isObject /\ body.promptText.t = "string" /\ Trim(body.promptText.s) = <<>>

\* C1: every inbound payload whose promptText is empty or whitespace-only is
\* answered with status 400, and no outbound call is attempted.
C1_BlankPromptIs400 ==
  (hpc \in {"awaiting", "responded"} /\ BlankPromptBody) =>
     /\ calls = 0
     /\ hpc = "responded" => reply.status = 400

\* C2: a success response without a text part on some attempt ends callGemini
\* with a status 500 error whose details are the response body, after exactly
\* one outbound call and no retry.
C2_NoTextIsTerminal ==
  (\E n \in 1..2 : Outcome(n) = "notext") =>
     /\ calls = 1
     /\ pc = "threw"
     /\ error = GeminiAPIError(MsgCouldNotParse, {500}, MkDetails("json", resp.body))

BothHttp == Outcome(1) = "http" /\ Outcome(2) = "http"

\* C3: a non-success HTTP status on both attempts makes exactly 2 outbound
\* calls with exactly one backoff delay, of 200ms, between them, and the
\* handler answers with status 502.
C3_TwoHttpFailures ==
  BothHttp =>
     /\ calls = 2
     /\ trace = <<CallEvent(1), OutcomeEvent(1, "http"), DelayEvent(200),
                  CallEvent(2), OutcomeEvent(2, "http")>>
     /\ pc = "threw"
     /\ hpc = "responded" => reply.status = 502

C3_Witness == BothHttp /\ hpc = "responded" /\ resp.status = 429 /\ reply.status = 502

\* C4: after a first attempt that succeeds (2xx with a non-empty text)
\* callGemini has returned that text, no second call was started and no
\* backoff delay was entered.
C4_FirstSuccessReturns ==
  Outcome(1) = "success" =>
     /\ pc = "returned"
     /\ calls = 1
     /\ trace = <<CallEvent(1), OutcomeEvent(1, "success")>>
     /\ timers = {} /\ inflight = {}
     /\ result.text = resp.body.text

C4_Witness == Outcome(1) = "success" /\ hpc = "responded" /\ reply.status = 200

\* C5: without the API credential callGemini throws the configuration error
\* for every prompt, valid, empty or whitespace-only, with no outbound call,
\* no timer and no retry.
C5_NoKeyIsConfigError ==
  (~apiKey /\ pc # "idle") =>
     /\ pc = "threw"
     /\ error = [cls |-> "GeminiAPIError", name |-> "GeminiAPIError",
                 message |-> <<"Server-side Gemini API key not configured.">>,
                 status |-> {}, details |-> NoDetails]
     /\ calls = 0 /\ trace = <<>> /\ timers = {} /\ inflight = {}

C5_Witness ==
  ~apiKey /\ pc = "threw" /\ args.promptText = <<" ">> /\ error.message = MsgNoKey

\* C6: whatever the attempts meet, callGemini never makes more than 2
\* outbound calls.
C6_AtMostTwoCalls ==
  /\ calls <= 2
  /\ Len(CallEvents) = calls
  /\ attempt <= 2

C6_Witness == calls = 2 /\ pc = "threw" /\ Outcome(1) = "network" /\ Outcome(2) = "malformed"

FailureKinds == {"network", "abort", "http", "malformed", "notext", "badsources", "readfail"}

\* C7: at most one outbound call is in flight at any time, and attempt 2
\* starts only after attempt 1 has settled with a failure and the backoff
\* delay has elapsed.
C7_Sequential ==
  /\ Cardinality(inflight) <= 1
  /\ inflight # {} => /\ inflight = {attempt}
                      /\ pc \in {"fetching", "reading"}
                      /\ \A t \in timers : t.kind # "backoff"
  /\ pc = "backoff" => inflight = {} /\ calls = 1
  /\ calls = 2 => /\ Outcome(1) \in FailureKinds
                  /\ SubSeq(trace, 1, 4) = <<CallEvent(1), OutcomeEvent(1, Outcome(1)),
                                              DelayEvent(200), CallEvent(2)>>

C7_Witness == inflight = {2} /\ pc = "fetching" /\ Outcome(1) = "abort"

C9_FinalErrorNormalized ==
  (pc = "threw" /\ caught # NoError) =>
     /\ Outcome(2) \in FailureKinds
     /\ error.cls = "GeminiAPIError"
     /\ caught.cls = "GeminiAPIError" => error = caught
     /\ (caught.cls # "GeminiAPIError" /\ caught.name = "AbortError") =>
           /\ error.message = <<"Request to Gemini timed out">>
           /\ error.status = {} /\ error.details = NoDetails
     /\ (caught.cls # "GeminiAPIError" /\ caught.name # "AbortError") =>
           /\ error.message = IF caught.message # <<>> THEN caught.message
                               ELSE <<"Unknown error calling Gemini">>
           /\ error.status = {} /\ error.details = NoDetails
     /\ Outcome(2) = "http" => caught.cls = "GeminiAPIError" /\ error.status = {resp.status}
     /\ Outcome(2) = "abort" => caught.name = "AbortError"

C9_Witness ==
  /\ pc = "threw" /\ Outcome(2) = "http" /\ error.status = {503}
  /\ error.details.t = "errobj"

\* C10: a returned text is never empty or absent: it is the non-empty text of
\* the response of the attempt that returned, and an attempt whose response
\* has no text or an empty one does not return.
C10_ReturnedTextNonEmpty ==
  /\ pc = "returned" =>
        /\ result.text.t = "string" /\ Len(result.text.s) > 0
        /\ result.text = resp.body.text
        /\ Outcome(attempt) = "success"
  /\ \A n \in 1..2 : Outcome(n) = "notext" => ~(pc = "returned" /\ attempt = n)
  /\ hpc = "responded" /\ reply.status = 200 => Len(reply.result.text.s) > 0

C10_Witness == pc = "returned" /\ Outcome(1) = "notext" /\ Outcome(2) = "success"

\* C11: when callGemini failed the handler answers 502 exactly when the final
\* attempt ended with a non-success HTTP status (the error whose message
\* carries 'Gemini API Error'), 500 for every other failure, and the body is
\* the message and the details of that error.
C11_FailureStatus ==
  (hpc = "responded" /\ pc = "threw") =>
     /\ reply.status = IF Outcome(2) = "http" THEN 502 ELSE 500
     /\ reply.status = 502 =>
           /\ error.status = {resp.status} /\ ~(resp.status \in 200..299)
           /\ error.message[1] = "Gemini API Error"
     /\ reply.error = error.message
     /\ reply.details = error.details
     /\ reply.result = NoResult

C11_Witness ==
  /\ hpc = "responded" /\ reply.status = 500 /\ Outcome(1) = "http" /\ Outcome(2) = "notext"
  /\ reply.details.t = "json"

\* The sources that the grounding of a response is to give
ExpectedSources(g) ==
  IF g.kind = "list"
  THEN [i \in 1..Len(g.list) |->
          [uri |-> IF g.list[i].web /\ g.list[i].uri.t = "string"
                   THEN g.list[i].uri.s ELSE <<>>,
           title |-> IF g.list[i].web /\ g.list[i].title.t = "string"
                     THEN g.list[i].title.s ELSE <<"External Source">>]]
  ELSE <<>>

\* C16: the sources of a returned result are the grounding attributions of
\* the response, one for one and in order, each with its web uri or '' and
\* its web title or 'External Source'; without grounding metadata or without
\* an attribution list the sources are empty.
C16_SourcesMapped ==
  pc = "returned" =>
     /\ result.sources = ExpectedSources(resp.body.grounding)
     /\ Len(result.sources) = Len(resp.body.grounding.list)
     /\ resp.body.grounding.kind \in {"absent", "noattr"} => result.sources = <<>>
     /\ hpc = "responded" => reply.result.sources = result.sources

C16_Witness ==
  /\ pc = "returned"
  /\ resp.body.grounding.list = <<[web |-> TRUE, uri |-> Str(<<"u">>), title |-> Str(<<"t">>)],
                                   [web |-> TRUE, uri |-> Undef, title |-> Undef]>>
  /\ result.sources = <<[uri |-> <<"u">>, title |-> <<"t">>],
                        [uri |-> <<>>, title |-> <<"External Source">>]>>

\* C12: whatever callGemini throws is a GeminiAPIError: the rejections of
\* fetch, of the body readers and of the JSON parser and the exception of
\* the source extraction never leave it as they were caught.
C12_OnlyClassifiedErrors ==
  /\ pc = "threw" =>
        /\ error.cls = "GeminiAPIError" /\ error.name = "GeminiAPIError"
        /\ error.message # <<>>
        /\ error \notin NetworkErrors \cup {AbortError, SyntaxError, MapTypeError}
  /\ pc # "threw" => error = NoError

C12_Witness ==
  /\ pc = "threw" /\ hpc = "responded"
  /\ Outcome(1) = "malformed" /\ Outcome(2) = "badsources"
  /\ caught = MapTypeError /\ error.cls = "GeminiAPIError"

\* C13, as stated: the handler always answers, and a malformed inbound body
\* is answered with status 500 and the generic internal-error message.
C13_MalformedBodyIs500 ==
  /\ hpc \in {"idle", "awaiting", "responded", "rejected", "none"}
  /\ (hpc = "rejected" \/ (hpc = "responded" /\ ~body.isObject)) =>
        reply.status = 500 /\ reply.error = <<"Internal server error">>

\* C13, amended: the handler lets no exception out and answers as soon as
\* callGemini has settled, with status 200, 400, 500 or 502; a body that is
\* not an object is taken as an empty payload and answered 400 'Missing
\* promptText' without calling callGemini, a body that is not JSON is answered
\* 400 'Invalid request' by the route, and the generic internal-error answer
\* of the outer catch is never produced.
C13_HandlerAlwaysAnswers ==
  /\ hpc \in {"idle", "awaiting", "responded", "rejected", "none"}
  /\ hpc = "awaiting" => pc # "idle" /\ reply = NoReply
  /\ (hpc = "awaiting" /\ pc \in {"returned", "threw"}) => ENABLED HandlerRespond
  /\ hpc = "responded" =>
        /\ reply.status \in {200, 400, 500, 502}
        /\ reply.status = 200 <=> pc = "returned"
        /\ reply.status = 400 <=> pc = "idle"
        /\ reply.error # <<"Internal server error">>
        /\ ~body.isObject =>
              /\ reply.status = 400 /\ reply.error = <<"Missing promptText">>
              /\ pc = "idle" /\ calls = 0
  /\ hpc = "rejected" =>
        /\ reply.status = 400 /\ reply.error = <<"Invalid request">>
        /\ pc = "idle" /\ calls = 0

C13_Witness ==
  hpc = "responded" /\ ~body.isObject /\ reply.status = 400 /\ reply.error = MsgMissingPrompt

\* C14: when the final attempt ended with a non-success HTTP status S, the
\* error thrown has a message that embeds S, the status S, and as details the
\* error object of the body when the body is JSON with one, else the raw
\* text of the body.
C14_HttpErrorShape ==
  (pc = "threw" /\ Outcome(2) = "http") =>
     /\ ~(resp.status \in 200..299)
     /\ error.cls = "GeminiAPIError"
     /\ error.message = <<"Gemini API Error", ": ", ToString(resp.status)>>
     /\ error.status = {resp.status}
     /\ error.details =
          [t |-> IF resp.body.json /\ resp.body.error THEN "errobj" ELSE "text",
           json |-> resp.body.json, text |-> resp.body.text, error |-> resp.body.error,
           grounding |-> resp.body.grounding]
     /\ hpc = "responded" => reply.details = error.details

C14_Witness ==
  /\ pc = "threw" /\ Outcome(1) = "network" /\ Outcome(2) = "http"
  /\ resp.status = 429 /\ error.message = <<"Gemini API Error", ": ", "429">>
  /\ error.details.t = "errobj"

\* C15: the system instruction of the payload is the instruction given,
\* unchanged, for every language other than 'ja-JP' and 'en-US', absent
\* included; for 'ja-JP' it is the instruction followed by the Japanese-only
\* directive, for 'en-US' the instruction followed by the English-only one.
C15_LanguageDirective ==
  payload # NoPayload =>
     LET in == args.systemInstruction
         out == payload.systemInstruction
         lang == args.language
     IN  /\ (lang.t # "string" \/ lang.s \notin {<<"ja-JP">>, <<"en-US">>}) => out = in
         /\ (lang.t = "string" /\ lang.s = <<"ja-JP">>) =>
               out = in \o <<"\n\n", "Always answer ONLY in Japanese">>
         /\ (lang.t = "string" /\ lang.s = <<"en-US">>) =>
               out = in \o <<"\n\n", "Always answer ONLY in English">>
         /\ SubSeq(out, 1, Len(in)) = in
         /\ payload.contents = args.promptText /\ payload.googleSearch

C15_Witness ==
  /\ args.language = Str(<<"ja-JP">>) /\ args.systemInstruction = <<"s">>
  /\ payload.systemInstruction = <<"s", "\n\n", "Always answer ONLY in Japanese">>
  /\ hpc = "awaiting"

\* C17: when attempt 1 fails, for whichever reason, and attempt 2 succeeds,
\* callGemini has waited one delay of 200ms between the two calls and returns
\* the text and the sources of the response of attempt 2; nothing of the
\* error of attempt 1 is thrown or answered.
C17_RetryThenSuccess ==
  (Outcome(1) \in FailureKinds /\ Outcome(2) = "success") =>
     /\ pc = "returned" /\ calls = 2
     /\ trace = <<CallEvent(1), OutcomeEvent(1, Outcome(1)), DelayEvent(200),
                  CallEvent(2), OutcomeEvent(2, "success")>>
     /\ result = [text |-> resp.body.text, sources |-> ExpectedSources(resp.body.grounding)]
     /\ error = NoError
     /\ timers = {} /\ inflight = {}
     /\ hpc = "responded" =>
           reply = [status |-> 200, error |-> <<>>, details |-> NoDetails, result |-> result]

C17_Witness ==
  /\ Outcome(1) = "http" /\ Outcome(2) = "success" /\ hpc = "responded"
  /\ reply.status = 200 /\ Len(reply.result.sources) = 1

ArmedAttemptTimers == {t \in timers : t.kind = "attempt"}

\* C19: at most one attempt timer is armed, only while the fetch of its own
\* attempt is pending: none during the reading of the body, the backoff wait
\* or after callGemini returned or threw; a controller is aborted only while
\* the fetch of its attempt is pending.
C19_TimersCleared ==
  /\ Cardinality(ArmedAttemptTimers) <= 1
  /\ \A t \in ArmedAttemptTimers :
        t.attempt = attempt /\ pc = "fetching" /\ attempt \in inflight
  /\ pc \in {"idle", "reading", "backoff", "returned", "threw"} => ArmedAttemptTimers = {}
  /\ pc \in {"idle", "returned", "threw"} => timers = {}
  /\ \A n \in 1..2 : controllers[n] = "aborted" =>
        \/ n = attempt /\ pc = "fetching"
        \/ Outcome(n) = "abort"

C19_Witness ==
  /\ pc = "reading" /\ attempt = 2 /\ timers = {} /\ controllers[2] = "live"
  /\ Outcome(1) = "readfail"

Settled == pc \in {"returned", "threw"}

\* C18: every call of callGemini that entered the loop ends, with a result or
\* with a GeminiAPIError, when every outbound call settles and every backoff
\* timer fires; the loop makes no third pass and the error of the fall-through
\* after the loop is never thrown.
C18_Terminates ==
  /\ (pc \in {"fetching", "reading", "backoff"}) ~> Settled
  /\ [](Settled => (pc = "returned") # (error.cls = "GeminiAPIError"))
  /\ [](attempt <= 2 /\ error.message # <<"Unexpected error in callGemini">>)
  /\ [][Settled => UNCHANGED <<pc, attempt, calls, result, error>>]_vars

C18_Witness == pc = "threw" /\ calls = 2 /\ Outcome(2) = "abort" /\ hpc = "none"

====
